---- MODULE Spec2Model ----
(***************************************************************************)
(* Model of the Mode webhook examples: the enrichment module hookrich.py   *)
(* and the AWS Lambda dispatchers post_to_destination.py and               *)
(* post_to_slack.py.  One invocation of an entry point is followed from    *)
(* its call to its return; every Mode API GET and every outbound POST is   *)
(* one step, so that their order and the effect of a failing request are   *)
(* visible.                                                                *)
(***************************************************************************)
EXTENDS Integers, Sequences, FiniteSets, TLC

(***************************************************************************)
(* Bounds of the model.                                                    *)
(***************************************************************************)
\* largest total_pages the upstream reports to a direct call of
\* consecutive_run_failures (larger than the cap of 10)
MaxTotalPages == 12
\* most runs on one page of the run history
MaxRunsPerPage == 3
\* a history of at most this many pages varies freely in the content of its
\* pages; the pages of a longer history hold one run each
MaxVariedPages == 3
\* largest total_pages the upstream reports inside a dispatcher invocation
MaxHandlerPages == 2
\* most rows of a report run's result
MaxRows == 2
\* last day of January 2020 a run of the duration check is created or completed
MaxDay == 3
\* most query runs the upstream lists for a report run
MaxQueryRuns == 2
\* most rows file_name.csv holds when the CSV dispatcher is invoked
MaxFoundRows == 2

(***************************************************************************)
(* Program constants.                                                      *)
(***************************************************************************)
max_pagination_pages == 10

alerts == [report_id |-> 643059, field |-> "total_amt_usd", threshold |-> 1000]

WEBHOOK_EVENTS ==
    [report_created |-> [url |-> "report_url", scope |-> "report"],
     report_run_started |-> [url |-> "report_run_url", scope |-> "report_run"],
     report_run_completed |-> [url |-> "report_run_url", scope |-> "report_run"],
     definition_created |-> [url |-> "definition_url", scope |-> "definition"],
     definition_updated |-> [url |-> "definition_url", scope |-> "definition"],
     new_database_connection |-> [url |-> "connection_url", scope |-> "connection"],
     member_joined_organization |-> [url |-> "member_url", scope |-> "membership"]]

(***************************************************************************)
(* Python values.                                                          *)
(***************************************************************************)
Min(a, b) == IF a < b THEN a ELSE b

\* an assignment in place of dict.update: the keys of p are lost
UpdateAssigns(p, q) == q

\* dict.update: the keys of q are added to p, a key of both takes q's value
Update(p, q) == [k \in DOMAIN p \cup DOMAIN q |-> IF k \in DOMAIN q THEN q[k] ELSE p[k]]

\* no exception
NoExc == [type |-> "none", at |-> "none"]

\* the entry point has not returned
NotReturned == [result |-> "none"]

\* _response(**resp)
ErrorResponse(msg) == [result |-> "error", message |-> msg]

SuccessResponse(r) == [result |-> "success", response |-> r]

VARIABLES
    entry,             \* the function this invocation entered
    event,             \* the Lambda event of a dispatcher invocation
    event_name,        \* the event kind
    body,              \* the parsed inbound body
    pc,                \* the statement the invocation is at
    fetches,           \* the Mode API GETs issued so far, in order
    payload,           \* the enrichment payload under construction
    data,              \* the answer of a fetcher's first GET, held while it issues more
    report_runs_data,  \* get_report_runs: the page fetched last
    total_pages,       \* get_report_runs: total_pages of the first page
    runs_payload,      \* get_report_runs: the pages fetched, in order
    args,              \* the arguments of a direct call of report_run_duration
    slack_attachments, \* the outcome of build_slack_message
    posts,             \* the outbound POSTs issued so far, in order
    exc,               \* the exception raised, if any, and where
    response,          \* what the entry point returned
    csv_file,          \* the rows of file_name.csv
    csv_found,         \* the rows of file_name.csv when the invocation began
    queries_res,       \* get_queries_info: the query runs the upstream listed
    queries_info       \* the rows get_queries_info returned

vars == <<entry, event, event_name, body, pc, fetches, payload, data,
          report_runs_data, total_pages, runs_payload, args, slack_attachments,
          posts, exc, response, csv_file, csv_found, queries_res, queries_info>>

csv_vars == <<csv_file, csv_found, queries_res, queries_info>>

Handlers == {"post_to_destination", "post_to_slack"}

\* A GET of the Mode API: the endpoint and, for the run history, the page served
Fetch(endpoint, page) == [endpoint |-> endpoint, page |-> page]

(***************************************************************************)
(* Raising.  In a dispatcher, an exception raised inside post_to_slack or  *)
(* post_to_destination is caught by `except Exception` and reported; a     *)
(* direct call of a hookrich function lets it propagate.                   *)
(***************************************************************************)
\* the except branch answering as the success path does
CaughtResponseAsSuccess(type) == SuccessResponse(type)

\* except Exception as error: _response(result='error', message=str(error))
CaughtResponse(type) == ErrorResponse(type)

Raise(type, at) ==
    /\ exc' = [type |-> type, at |-> at]
    /\ pc' = "done"
    /\ response' = IF entry \in Handlers THEN CaughtResponse(type) ELSE [result |-> "raised"]

(***************************************************************************)
(* The run history served by the upstream.  The Mode API numbers the pages *)
(* of a listing from 1: the k-th page of a listing reports page k, and     *)
(* carries a next_page link exactly when a later page exists.              *)
(***************************************************************************)
RunStates == {"failed", "succeeded"}

SeqsUpTo(S, n) == UNION {[1..k -> S] : k \in 0..n}

TotalPagesValues == IF entry = "consecutive_run_failures" THEN 0..MaxTotalPages ELSE 0..MaxHandlerPages

PageRuns(k, tp) ==
    IF tp = 0 THEN {<<>>}
    ELSE IF entry = "consecutive_run_failures"
         THEN IF tp <= MaxVariedPages THEN SeqsUpTo(RunStates, MaxRunsPerPage)
              ELSE [1..1 -> RunStates]
         ELSE {<<"failed", "failed">>, <<"succeeded", "failed">>, <<"failed">>}

Page(k, tp, states) ==
    [pagination |-> [page |-> k, total_pages |-> tp],
     has_next |-> k < tp,
     report_runs |-> [i \in 1..Len(states) |-> [state |-> states[i]]]]

NoPage == Page(0, 0, <<>>)

(***************************************************************************)
(* get_report_runs                                                         *)
(***************************************************************************)
\* the loop condition without the cap on the pages walked
MorePagesNoCap(last, total) == last.pagination.page < total

\* the condition of the pagination loop
MorePages(last, total) == last.pagination.page < Min(total, max_pagination_pages)

\* the first page: _mode_api_get(url + '/runs')
GetRunsFirst ==
    /\ pc = "get_report_runs"
    /\ \E ok \in BOOLEAN, tp \in TotalPagesValues :
       \E states \in PageRuns(1, tp) :
          /\ fetches' = Append(fetches, Fetch("runs", 1))
          /\ IF ok
             THEN /\ report_runs_data' = Page(1, tp, states)
                  /\ total_pages' = tp
                  /\ runs_payload' = <<Page(1, tp, states)>>
                  /\ pc' = "pagination"
                  /\ UNCHANGED <<exc, response>>
             ELSE /\ Raise("RequestException", "get_report_runs")
                  /\ UNCHANGED <<report_runs_data, total_pages, runs_payload>>
    /\ UNCHANGED <<csv_vars, entry, event, event_name, body, payload, data, args,
                   slack_attachments, posts>>

\* one turn of the loop: follow the next_page link of the page fetched last
GetRunsNext ==
    /\ pc = "pagination"
    /\ MorePages(report_runs_data, total_pages)
    /\ IF report_runs_data.has_next
       THEN LET k == report_runs_data.pagination.page + 1 IN
            \E ok \in BOOLEAN, states \in PageRuns(k, total_pages) :
               /\ fetches' = Append(fetches, Fetch("runs", k))
               /\ IF ok
                  THEN /\ report_runs_data' = Page(k, total_pages, states)
                       /\ runs_payload' = Append(runs_payload, Page(k, total_pages, states))
                       /\ UNCHANGED <<pc, exc, response>>
                  ELSE /\ Raise("RequestException", "get_report_runs")
                       /\ UNCHANGED <<report_runs_data, runs_payload>>
       ELSE /\ Raise("KeyError", "get_report_runs")
            /\ UNCHANGED <<fetches, report_runs_data, runs_payload>>
    /\ UNCHANGED <<csv_vars, entry, event, event_name, body, payload, data, total_pages,
                   args, slack_attachments, posts>>

(***************************************************************************)
(* consecutive_run_failures                                                *)
(***************************************************************************)
HasSuccess(runs) == \E i \in 1..Len(runs) : runs[i].state = "succeeded"

\* the for loop over the pages, from page i with the count so far
RECURSIVE CountFrom(_, _, _)
CountFrom(pages, i, count) ==
    IF i > Len(pages) THEN count
    ELSE IF HasSuccess(pages[i].report_runs) THEN count
    ELSE CountFrom(pages, i + 1, count + Len(pages[i].report_runs))

consecutive_run_failures(pages) == CountFrom(pages, 1, 0)

\* a direct call returns the count
ConsecutiveRunFailuresReturn ==
    /\ pc = "pagination"
    /\ entry = "consecutive_run_failures"
    /\ ~MorePages(report_runs_data, total_pages)
    /\ response' = [result |-> "returned", value |-> consecutive_run_failures(runs_payload)]
    /\ pc' = "done"
    /\ UNCHANGED <<csv_vars, entry, event, event_name, body, fetches, payload, data,
                   report_runs_data, total_pages, runs_payload, args, slack_attachments,
                   posts, exc>>

(***************************************************************************)
(* A direct call of consecutive_run_failures(report_url).                  *)
(***************************************************************************)
NoEvent == [x \in {} |-> x]

\* build_slack_message has not been called
NotBuilt == [raised |-> "not called", value |-> <<>>]

\* file_name.csv as an invocation finds it; only the CSV dispatcher opens it
FoundFiles ==
    IF entry = "lambda_handler"
    THEN {[i \in 1..n |-> <<<<"r", "o", "w">>, <<ToString(i)>>>>] : n \in 0..MaxFoundRows}
    ELSE {<<>>}

InitCommon ==
    /\ csv_file \in FoundFiles
    /\ csv_found = csv_file
    /\ queries_res = <<>>
    /\ queries_info = <<>>
    /\ body = NoEvent
    /\ fetches = <<>>
    /\ payload = NoEvent
    /\ data = NoEvent
    /\ report_runs_data = NoPage
    /\ total_pages = 0
    /\ runs_payload = <<>>
    /\ slack_attachments = NotBuilt
    /\ posts = <<>>
    /\ exc = NoExc
    /\ response = NotReturned

InitRuns ==
    /\ entry = "consecutive_run_failures"
    /\ pc = "get_report_runs"
    /\ event = NoEvent
    /\ event_name = ""
    /\ args = <<>>
    /\ InitCommon

NextRuns == GetRunsFirst \/ GetRunsNext \/ ConsecutiveRunFailuresReturn

SpecRuns == InitRuns /\ [][NextRuns]_vars

(***************************************************************************)
(* report_run_duration.  A timestamp string 'YYYY-MM-DDTHH:MM:SS.ffffffZ'  *)
(* is the tuple of its seven numeric fields; None is the empty tuple.      *)
(***************************************************************************)
IsLeap(y) == y % 4 = 0 /\ (y % 100 # 0 \/ y % 400 = 0)

DaysInMonth(y, m) ==
    IF m = 2 THEN (IF IsLeap(y) THEN 29 ELSE 28)
    ELSE IF m \in {4, 6, 9, 11} THEN 30 ELSE 31

\* what strptime accepts under '%Y-%m-%dT%H:%M:%S.%fZ'
Parses(iso) ==
    /\ Len(iso) = 7
    /\ iso[1] \in 1..9999 /\ iso[2] \in 1..12 /\ iso[3] \in 1..DaysInMonth(iso[1], iso[2])
    /\ iso[4] \in 0..23 /\ iso[5] \in 0..59 /\ iso[6] \in 0..61 /\ iso[7] \in 0..999999

datetime_iso_convert(iso_string) ==
    [year |-> iso_string[1], month |-> iso_string[2], day |-> iso_string[3],
     hour |-> iso_string[4], minute |-> iso_string[5], second |-> iso_string[6],
     microsecond |-> iso_string[7]]

RECURSIVE DaysBeforeMonth(_, _)
DaysBeforeMonth(y, m) == IF m = 1 THEN 0 ELSE DaysBeforeMonth(y, m - 1) + DaysInMonth(y, m - 1)

\* datetime.toordinal
ToOrdinal(dt) ==
    LET y == dt.year - 1 IN
    y * 365 + (y \div 4) - (y \div 100) + (y \div 400) + DaysBeforeMonth(dt.year, dt.month) + dt.day

\* timedelta(days, seconds, microseconds), normalised as the constructor does:
\* 0 <= microseconds < 1000000 and 0 <= seconds < 86400, the rest carried
timedelta(d, sec, us) ==
    LET s1 == sec + (us \div 1000000) IN
    [days |-> d + (s1 \div 86400), seconds |-> s1 % 86400, microseconds |-> us % 1000000]

\* datetime.__sub__
DatetimeSub(a, b) ==
    timedelta(ToOrdinal(a) - ToOrdinal(b),
              (a.second + a.minute * 60 + a.hour * 3600) - (b.second + b.minute * 60 + b.hour * 3600),
              a.microsecond - b.microsecond)

report_run_duration(started_at, completed_at) ==
    DatetimeSub(datetime_iso_convert(completed_at), datetime_iso_convert(started_at)).seconds

(***************************************************************************)
(* The answers of the Mode API inside an enrichment.                       *)
(***************************************************************************)
NoneValue == <<>>

ReportRunStates == {"succeeded", "failed", "cancelled"}

CreatedAtValues == {<<2020, 1, 1, 0, 0, 0, 0>>}

\* completed_at: ten seconds after created_at, or null
CompletedAtValues == {<<2020, 1, 1, 0, 0, 10, 0>>, NoneValue}

\* the watched field of a result row: at the threshold and above it
FieldValues == {alerts.threshold, alerts.threshold + 500, alerts.threshold + 1000}

ResultRows == {[total_amt_usd |-> v] : v \in FieldValues}

ReportIds == {alerts.report_id, alerts.report_id + 1}

\* one GET of a fetcher that issues no other: on an answer the payload
\* becomes info and control moves to next, on a failure the request raises
SimpleGet(at, endpoint, info, next) ==
    /\ pc = at
    /\ fetches' = Append(fetches, Fetch(endpoint, 0))
    /\ \E ok \in BOOLEAN :
          IF ok
          THEN /\ payload' = info
               /\ pc' = next
               /\ UNCHANGED <<exc, response>>
          ELSE /\ Raise("RequestException", at)
               /\ UNCHANGED payload
    /\ UNCHANGED <<csv_vars, entry, event, event_name, body, data, report_runs_data, total_pages,
                   runs_payload, args, slack_attachments, posts>>

(***************************************************************************)
(* enrich_payload                                                          *)
(***************************************************************************)
\* a scope without a branch in the if chain leaves payload unbound
FirstFetcher(scope) ==
    CASE scope = "report_run" -> "get_report_run_info"
      [] scope = "report" -> "get_report_info"
      [] scope = "membership" -> "get_membership_info"
      [] scope = "connection" -> "get_connection_info"
      [] scope = "definition" -> "get_definition_info"

\* EventURL(event_url), the scope lookup and the dispatch on the scope
EnrichPayload ==
    /\ pc = "enrich_payload"
    /\ IF event_name \in DOMAIN WEBHOOK_EVENTS
       THEN /\ pc' = FirstFetcher(WEBHOOK_EVENTS[event_name].scope)
            /\ UNCHANGED <<exc, response>>
       ELSE Raise("KeyError", "enrich_payload")
    /\ UNCHANGED <<csv_vars, entry, event, event_name, body, fetches, payload, data, report_runs_data,
                   total_pages, runs_payload, args, slack_attachments, posts>>

\* get_report_run_info: the GET of the report run
GetReportRun ==
    /\ pc = "get_report_run_info"
    /\ fetches' = Append(fetches, Fetch("report_run", 0))
    /\ \E ok \in BOOLEAN, state \in ReportRunStates, created \in CreatedAtValues,
          completed \in CompletedAtValues :
          IF ok
          THEN /\ data' = [state |-> state, created_at |-> created, completed_at |-> completed]
               /\ pc' = "get_results"
               /\ UNCHANGED <<exc, response>>
          ELSE /\ Raise("RequestException", "get_report_run_info")
               /\ UNCHANGED data
    /\ UNCHANGED <<csv_vars, entry, event, event_name, body, payload, report_runs_data, total_pages,
                   runs_payload, args, slack_attachments, posts>>

\* get_report_run_info: the GET of the results, then the mapping returned
GetResults ==
    /\ pc = "get_results"
    /\ fetches' = Append(fetches, Fetch("results", 0))
    /\ \E ok \in BOOLEAN, results \in SeqsUpTo(ResultRows, MaxRows) :
          IF ~ok
          THEN /\ Raise("RequestException", "get_report_run_info")
               /\ UNCHANGED payload
          ELSE IF ~(Parses(data.created_at) /\ Parses(data.completed_at))
          THEN /\ Raise("TypeError", "get_report_run_info")
               /\ UNCHANGED payload
          ELSE /\ payload' =
                     [report_run |->
                         [state |-> data.state,
                          created_at |-> data.created_at,
                          completed_at |-> data.completed_at,
                          execution_duration |->
                              report_run_duration(data.created_at, data.completed_at),
                          results |-> results]]
               /\ pc' = "get_report_info"
               /\ UNCHANGED <<exc, response>>
    /\ UNCHANGED <<csv_vars, entry, event, event_name, body, data, report_runs_data, total_pages,
                   runs_payload, args, slack_attachments, posts>>

\* get_report_info: the GET of the report
GetReport ==
    /\ pc = "get_report_info"
    /\ fetches' = Append(fetches, Fetch("report", 0))
    /\ \E ok \in BOOLEAN, id \in ReportIds :
          IF ok
          THEN /\ data' = [id |-> id, space_token |-> "space_token"]
               /\ pc' = "get_report_runs"
               /\ UNCHANGED <<exc, response>>
          ELSE /\ Raise("RequestException", "get_report_info")
               /\ UNCHANGED data
    /\ UNCHANGED <<csv_vars, entry, event, event_name, body, payload, report_runs_data, total_pages,
                   runs_payload, args, slack_attachments, posts>>

\* get_report_info: the run history is walked, the mapping is returned and
\* enrich_payload takes it (report scope) or merges it (report_run scope)
ReportInfoReturn ==
    /\ pc = "pagination"
    /\ entry # "consecutive_run_failures"
    /\ ~MorePages(report_runs_data, total_pages)
    /\ LET info == [report |->
                       [id |-> data.id,
                        consecutive_run_failures |-> consecutive_run_failures(runs_payload),
                        space_token |-> data.space_token]]
       IN payload' = IF WEBHOOK_EVENTS[event_name].scope = "report" THEN info
                     ELSE Update(payload, info)
    /\ pc' = "get_space_info"
    /\ UNCHANGED <<csv_vars, entry, event, event_name, body, fetches, data, report_runs_data,
                   total_pages, runs_payload, args, slack_attachments, posts, exc, response>>

\* get_space_info, addressed by the report's space_token
GetSpace ==
    /\ pc = "get_space_info"
    /\ "space_token" \in DOMAIN payload["report"]
    /\ SimpleGet("get_space_info", "space", Update(payload, [space |-> [name |-> "space"]]),
                 "enriched")

\* get_membership_info: the GET of the membership
GetMembership ==
    /\ pc = "get_membership_info"
    /\ SimpleGet("get_membership_info", "membership", [membership |-> [token |-> "member"]],
              "get_user_info")

\* get_user_info, called by get_membership_info
GetUser ==
    /\ pc = "get_user_info"
    /\ SimpleGet("get_user_info", "user", Update(payload, [user |-> [name |-> "user"]]),
              "get_org_info")

\* get_org_info, called by get_membership_info
GetOrg ==
    /\ pc = "get_org_info"
    /\ SimpleGet("get_org_info", "organization",
              Update(payload, [organization |-> [name |-> "org"]]), "enriched")

GetConnection ==
    /\ pc = "get_connection_info"
    /\ SimpleGet("get_connection_info", "connection", [connection |-> [name |-> "db"]],
              "enriched")

GetDefinition ==
    /\ pc = "get_definition_info"
    /\ SimpleGet("get_definition_info", "definition", [definition |-> [name |-> "def"]],
              "enriched")

\* a direct call of enrich_payload returns the payload
EnrichPayloadReturn ==
    /\ pc = "enriched"
    /\ entry = "enrich_payload"
    /\ response' = [result |-> "returned", value |-> payload]
    /\ pc' = "done"
    /\ UNCHANGED <<csv_vars, entry, event, event_name, body, fetches, payload, data, report_runs_data,
                   total_pages, runs_payload, args, slack_attachments, posts, exc>>

(***************************************************************************)
(* The message builders of post_to_slack.py.  A message text is its        *)
(* template and the formatted values of the fields the model carries.      *)
(***************************************************************************)
Returned(v) == [raised |-> "none", value |-> v]

Raised(type) == [raised |-> type, value |-> <<>>]

Attachment(title, color, template, values) ==
    [title |-> title, color |-> color, author_name |-> "Mode",
     text |-> [template |-> template, args |-> values]]

\* the test of the alert loop, without its strictness
ExceedsOrEquals(row) == row[alerts.field] >= alerts.threshold

\* the test of the alert loop
Exceeds(row) == row[alerts.field] > alerts.threshold

\* the alert loop from row i: the first row over the threshold, 0 if the loop ends
RECURSIVE FirstExceeding(_, _)
FirstExceeding(rows, i) ==
    IF i > Len(rows) THEN 0
    ELSE IF Exceeds(rows[i]) THEN i
    ELSE FirstExceeding(rows, i + 1)

AlertAttachment(row) ==
    [title |-> "Threshold Alert :heavy_exclamation_mark:", color |-> "warning",
     author_name |-> "Mode",
     text |-> [template |-> "Heads up!", args |-> <<alerts.field>>],
     fields |-> <<[title |-> "Observed Value", value |-> row[alerts.field]],
                  [title |-> "Threshold Value", value |-> alerts.threshold]>>]

\* the builder with `attachments` initialised to the empty list
report_run_completed_message_empty_default(p) ==
    IF p["report_run"].state = "succeeded" /\ p["report"].id = alerts.report_id
    THEN LET i == FirstExceeding(p["report_run"].results, 1) IN
         IF i = 0 THEN Returned(<<>>)
         ELSE Returned(<<AlertAttachment(p["report_run"].results[i])>>)
    ELSE IF p["report_run"].state = "succeeded"
    THEN Returned(<<Attachment("Successful Report Run :success:", "good", "Good news!",
                               <<ToString(p["report_run"].execution_duration)>>)>>)
    ELSE IF p["report_run"].state = "failed"
    THEN Returned(<<Attachment("Failed Report Run :sad-error:", "danger", "Oh no!",
                               <<ToString(p["report"].consecutive_run_failures)>>)>>)
    ELSE Returned(<<>>)

\* `attachments` is assigned in the branches only; returning it unassigned
\* raises UnboundLocalError
report_run_completed_message(p) ==
    IF p["report_run"].state = "succeeded" /\ p["report"].id = alerts.report_id
    THEN LET i == FirstExceeding(p["report_run"].results, 1) IN
         IF i = 0 THEN Raised("UnboundLocalError")
         ELSE Returned(<<AlertAttachment(p["report_run"].results[i])>>)
    ELSE IF p["report_run"].state = "succeeded"
    THEN Returned(<<Attachment("Successful Report Run :success:", "good", "Good news!",
                               <<ToString(p["report_run"].execution_duration)>>)>>)
    ELSE IF p["report_run"].state = "failed"
    THEN Returned(<<Attachment("Failed Report Run :sad-error:", "danger", "Oh no!",
                               <<ToString(p["report"].consecutive_run_failures)>>)>>)
    ELSE Raised("UnboundLocalError")

\* the dispatch on the scope of the event instead of its kind
build_slack_message_by_scope(name, p) ==
    IF name \in {"report_run_completed", "report_run_started"}
    THEN report_run_completed_message(p)
    ELSE Raised("Unsupported event type")

build_slack_message(name, p) ==
    CASE name = "report_run_completed" -> report_run_completed_message(p)
      [] name = "report_created" ->
            Returned(<<Attachment("New Report Created :plus1:", "good", "created", <<>>)>>)
      [] name = "member_joined_organization" ->
            Returned(<<Attachment("New Org Member :wave:", "good", "Say hi!", <<>>)>>)
      [] name = "definition_created" ->
            Returned(<<Attachment("New Definition :plus1:", "good", "created", <<>>)>>)
      [] name = "definition_updated" ->
            Returned(<<Attachment("Definition Updated :heavy_exclamation_mark:", "warning",
                                  "updated", <<>>)>>)
      [] name = "new_database_connection" ->
            Returned(<<Attachment("New Data Source :plus1:", "good", "connected", <<>>)>>)
      [] OTHER -> Raised("Unsupported event type")

(***************************************************************************)
(* The dispatchers.                                                        *)
(***************************************************************************)
\* the inbound event kinds: those of the table and one that is not
EventNames == DOMAIN WEBHOOK_EVENTS \cup {"report_archived"}

UrlFields == {WEBHOOK_EVENTS[e].url : e \in DOMAIN WEBHOOK_EVENTS}

Absent == "(absent)"

\* a JSON object with, at most, an 'event' member and one URL member
Members(e, k) ==
    [x \in (IF e = Absent THEN {} ELSE {"event"}) \cup (IF k = Absent THEN {} ELSE {k}) |->
        IF x = "event" THEN e ELSE "https://modeanalytics.com/api/org/..."]

\* what a body string holds: text that is no JSON, a JSON array, a JSON object
JsonDocs ==
    {[valid |-> FALSE], [valid |-> TRUE, kind |-> "array"]}
    \cup {[valid |-> TRUE, kind |-> "object", members |-> Members(e, k)] :
             e \in EventNames \cup {Absent}, k \in UrlFields \cup {Absent}}

\* the Lambda events: without a body, with a null body, with a string body
Events ==
    {NoEvent, [body |-> [type |-> "NoneType"]]}
    \cup {[body |-> [type |-> "str", doc |-> d]] : d \in JsonDocs}

\* json.loads(event['body']) and body['event'], with the exception either raises
ParseEvent(ev) ==
    IF "body" \notin DOMAIN ev THEN [raised |-> "KeyError"]
    ELSE IF ev["body"].type # "str" THEN [raised |-> "TypeError"]
    ELSE IF ~ev["body"].doc.valid THEN [raised |-> "ValueError"]
    ELSE IF ev["body"].doc.kind # "object" THEN [raised |-> "TypeError"]
    ELSE IF "event" \notin DOMAIN ev["body"].doc.members THEN [raised |-> "KeyError"]
    ELSE [raised |-> "none", body |-> ev["body"].doc.members,
          event_name |-> ev["body"].doc.members["event"]]

\* lambda_function_handler: the first try block
ParseBody ==
    /\ pc = "lambda_function_handler"
    /\ LET r == ParseEvent(event) IN
       IF r.raised = "none"
       THEN /\ body' = r.body
            /\ event_name' = r.event_name
            /\ pc' = "lookup"
            /\ UNCHANGED <<exc, response>>
       ELSE /\ exc' = [type |-> r.raised, at |-> "parse"]
            /\ pc' = "done"
            /\ response' = IF r.raised \in {"TypeError", "KeyError"}
                           THEN ErrorResponse("Invalid webhook event")
                           ELSE [result |-> "raised"]
            /\ UNCHANGED <<body, event_name>>
    /\ UNCHANGED <<csv_vars, entry, event, fetches, payload, data, report_runs_data, total_pages,
                   runs_payload, args, slack_attachments, posts>>

\* the lookup that forgets the table of event kinds
HasEventUrlAnyKind(name, b) == TRUE

\* body[hr.WEBHOOK_EVENTS[event_name]['url']] raises no KeyError
HasEventUrl(name, b) == name \in DOMAIN WEBHOOK_EVENTS /\ WEBHOOK_EVENTS[name].url \in DOMAIN b

\* lambda_function_handler: the second try block
LookupUrl ==
    /\ pc = "lookup"
    /\ IF HasEventUrl(event_name, body)
       THEN /\ pc' = "enrich_payload"
            /\ UNCHANGED <<exc, response>>
       ELSE /\ exc' = [type |-> "KeyError", at |-> "lookup"]
            /\ pc' = "done"
            /\ response' = ErrorResponse("Unsupported event type")
    /\ UNCHANGED <<csv_vars, entry, event, event_name, body, fetches, payload, data, report_runs_data,
                   total_pages, runs_payload, args, slack_attachments, posts>>

\* the event kind stored under the key 'event'
SetEventKey(p, name) == Update(p, [event |-> name])

\* payload['event_name'] = event_name
SetEventName(p, name) == Update(p, [event_name |-> name])

\* post_to_destination after the enrichment, and the handler's return
PostToDestination ==
    /\ pc = "enriched"
    /\ entry = "post_to_destination"
    /\ posts' = Append(posts, [url |-> "destination_url",
                               data |-> SetEventName(payload, event_name)])
    /\ \E ok \in BOOLEAN :
          IF ok
          THEN /\ response' = SuccessResponse("json")
               /\ pc' = "done"
               /\ UNCHANGED exc
          ELSE Raise("RequestException", "post")
    /\ UNCHANGED <<csv_vars, entry, event, event_name, body, fetches, payload, data, report_runs_data,
                   total_pages, runs_payload, args, slack_attachments>>

\* post_to_slack after the enrichment: the message is built
BuildSlackMessage ==
    /\ pc = "enriched"
    /\ entry = "post_to_slack"
    /\ LET r == build_slack_message(event_name, SetEventName(payload, event_name)) IN
       /\ slack_attachments' = r
       /\ IF r.raised = "none"
          THEN /\ pc' = "post"
               /\ UNCHANGED <<exc, response>>
          ELSE Raise(r.raised, "build_slack_message")
    /\ UNCHANGED <<csv_vars, entry, event, event_name, body, fetches, payload, data, report_runs_data,
                   total_pages, runs_payload, args, posts>>

\* post_to_slack: the POST, and the handler's return
PostToSlack ==
    /\ pc = "post"
    /\ posts' = Append(posts, [url |-> "slack_webhook_url",
                               json |-> [attachments |-> slack_attachments.value,
                                         username |-> "Mode"]])
    /\ \E ok \in BOOLEAN :
          IF ok
          THEN /\ response' = SuccessResponse("text")
               /\ pc' = "done"
               /\ UNCHANGED exc
          ELSE Raise("RequestException", "post")
    /\ UNCHANGED <<csv_vars, entry, event, event_name, body, fetches, payload, data, report_runs_data,
                   total_pages, runs_payload, args, slack_attachments>>

(***************************************************************************)
(* An invocation of a dispatcher, or a direct call of enrich_payload.      *)
(***************************************************************************)
Init ==
    /\ entry \in Handlers \cup {"enrich_payload"}
    /\ IF entry \in Handlers
       THEN /\ event \in Events
            /\ event_name = ""
            /\ pc = "lambda_function_handler"
       ELSE /\ event = NoEvent
            /\ event_name \in EventNames
            /\ pc = "enrich_payload"
    /\ args = <<>>
    /\ InitCommon

Next ==
    \/ ParseBody
    \/ LookupUrl
    \/ EnrichPayload
    \/ GetReportRun
    \/ GetResults
    \/ GetReport
    \/ GetRunsFirst
    \/ GetRunsNext
    \/ ReportInfoReturn
    \/ GetSpace
    \/ GetMembership
    \/ GetUser
    \/ GetOrg
    \/ GetConnection
    \/ GetDefinition
    \/ EnrichPayloadReturn
    \/ PostToDestination
    \/ BuildSlackMessage
    \/ PostToSlack

Spec == Init /\ [][Next]_vars

\* a direct call report_run_duration(started_at, completed_at)
ReportRunDuration ==
    /\ pc = "report_run_duration"
    /\ IF Parses(args[1]) /\ Parses(args[2])
       THEN /\ response' = [result |-> "returned", value |-> report_run_duration(args[1], args[2])]
            /\ pc' = "done"
            /\ UNCHANGED exc
       ELSE Raise("TypeError", "report_run_duration")
    /\ UNCHANGED <<csv_vars, entry, event, event_name, body, fetches, payload, data,
                   report_runs_data, total_pages, runs_payload, args, slack_attachments,
                   posts>>

Dates == {<<2020, 1, d>> : d \in 1..MaxDay} \cup {<<2020, 2, 28>>, <<2020, 3, 1>>}

Timestamps ==
    {d \o <<h, m, sec, us>> : d \in Dates, h \in {0, 23}, m \in {0, 59}, sec \in {0, 10},
                             us \in {0, 900000}}

InitDuration ==
    /\ entry = "report_run_duration"
    /\ pc = "report_run_duration"
    /\ event = NoEvent
    /\ event_name = ""
    /\ args \in Timestamps \X (Timestamps \cup {NoneValue})
    /\ InitCommon

NextDuration == ReportRunDuration

SpecDuration == InitDuration /\ [][NextDuration]_vars

(***************************************************************************)
(* A direct call of get_report_runs against an upstream that answers as it *)
(* likes: a page may report any page number, whatever was asked for, and   *)
(* may or may not carry a next_page link.                                  *)
(***************************************************************************)
\* largest total_pages and page number such an upstream reports
MaxUpstreamTotal == 3
\* the page requests of one call the model follows
MaxRequests == 12

AnyPage(k, tp, next) ==
    [pagination |-> [page |-> k, total_pages |-> tp],
     has_next |-> next,
     report_runs |-> <<[state |-> "failed"]>>]

\* the first page: _mode_api_get(url + '/runs')
GetRunsFirstAny ==
    /\ pc = "get_report_runs"
    /\ entry = "get_report_runs"
    /\ fetches' = Append(fetches, Fetch("runs", 1))
    /\ \E ok \in BOOLEAN, k \in 1..MaxUpstreamTotal, tp \in 0..MaxUpstreamTotal,
          next \in BOOLEAN :
          IF ok
          THEN /\ report_runs_data' = AnyPage(k, tp, next)
               /\ total_pages' = tp
               /\ runs_payload' = <<AnyPage(k, tp, next)>>
               /\ pc' = "pagination"
               /\ UNCHANGED <<exc, response>>
          ELSE /\ Raise("RequestException", "get_report_runs")
               /\ UNCHANGED <<report_runs_data, total_pages, runs_payload>>
    /\ UNCHANGED <<csv_vars, entry, event, event_name, body, payload, data, args,
                   slack_attachments, posts>>

\* one turn of the loop: the next_page link is followed, and the answer
\* reports the page number the upstream chooses
GetRunsNextAny ==
    /\ pc = "pagination"
    /\ entry = "get_report_runs"
    /\ MorePages(report_runs_data, total_pages)
    /\ Len(fetches) < MaxRequests
    /\ IF report_runs_data.has_next
       THEN /\ fetches' = Append(fetches, Fetch("runs", Len(fetches) + 1))
            /\ \E ok \in BOOLEAN, k \in 1..MaxUpstreamTotal, next \in BOOLEAN :
                  IF ok
                  THEN /\ report_runs_data' = AnyPage(k, total_pages, next)
                       /\ runs_payload' = Append(runs_payload, AnyPage(k, total_pages, next))
                       /\ UNCHANGED <<pc, exc, response>>
                  ELSE /\ Raise("RequestException", "get_report_runs")
                       /\ UNCHANGED <<report_runs_data, runs_payload>>
       ELSE /\ Raise("KeyError", "get_report_runs")
            /\ UNCHANGED <<fetches, report_runs_data, runs_payload>>
    /\ UNCHANGED <<csv_vars, entry, event, event_name, body, payload, data, total_pages,
                   args, slack_attachments, posts>>

\* the loop ends and the pages are returned
GetReportRunsReturn ==
    /\ pc = "pagination"
    /\ entry = "get_report_runs"
    /\ ~MorePages(report_runs_data, total_pages)
    /\ response' = [result |-> "returned", value |-> runs_payload]
    /\ pc' = "done"
    /\ UNCHANGED <<csv_vars, entry, event, event_name, body, fetches, payload, data,
                   report_runs_data, total_pages, runs_payload, args, slack_attachments,
                   posts, exc>>

InitAnyUpstream ==
    /\ entry = "get_report_runs"
    /\ pc = "get_report_runs"
    /\ event = NoEvent
    /\ event_name = ""
    /\ args = <<>>
    /\ InitCommon

NextAnyUpstream == GetRunsFirstAny \/ GetRunsNextAny \/ GetReportRunsReturn

SpecAnyUpstream == InitAnyUpstream /\ [][NextAnyUpstream]_vars

\* C12: get_report_runs stops after a bounded number of fetches whatever the
\* upstream answers, also when the reported page number does not increase:
\* it never issues more page requests than the cap of 10.
C12_StopsWithinTheCap ==
    entry = "get_report_runs" => Len(fetches) <= 10

\* the same against the reported total: with total_pages = 3 it stops after
\* 3 requests
C12_StopsAtReportedTotal ==
    (entry = "get_report_runs" /\ total_pages = 3) => Len(fetches) <= 3

(***************************************************************************)
(* The CSV dispatcher, log_usage_csv.py.  A text is a sequence of          *)
(* characters, a row a sequence of cells, file_name.csv a sequence of      *)
(* rows.  The conversions are Python 2's, where the byte string that       *)
(* encode() returns takes str arguments in replace().                      *)
(***************************************************************************)
columns_list ==
    <<"query_token", "state", "created_at", "completed_at", "raw_source", "parameters">>

\* the JSON values of a query run's members
Unicode(text) == [type |-> "unicode", text |-> text]

PyNone == [type |-> "NoneType"]

EmptyDict == [type |-> "dict"]

\* s.replace(old, new): every occurrence of old, scanning from the left
RECURSIVE Replace(_, _, _)
Replace(s, old, new) ==
    IF Len(s) < Len(old) THEN s
    ELSE IF SubSeq(s, 1, Len(old)) = old
         THEN new \o Replace(SubSeq(s, Len(old) + 1, Len(s)), old, new)
         ELSE <<Head(s)>> \o Replace(Tail(s), old, new)

\* str(v)
Str(v) ==
    IF v.type = "unicode" THEN v.text
    ELSE IF v.type = "NoneType" THEN <<"N", "o", "n", "e">>
    ELSE <<"{", "}">>

\* one element of the list comprehension
Cell(query, col) ==
    IF col = "raw_source"
    THEN Replace(Replace(query[col].text, <<"\n">>, <<" ">>), <<" ", " ", " ", " ">>, <<>>)
    ELSE Str(query[col])

\* the row of one query run, or the exception its first bad column raises
Row(query) ==
    LET n == Len(columns_list)
        bad(i) == \/ columns_list[i] \notin DOMAIN query
                  \/ columns_list[i] = "raw_source" /\ query[columns_list[i]].type # "unicode"
        first == CHOOSE i \in 1..(n + 1) :
                    /\ i = n + 1 \/ bad(i)
                    /\ \A j \in 1..(i - 1) : ~bad(j)
    IN  IF first = n + 1
        THEN [raised |-> "none", row |-> [i \in 1..n |-> Cell(query, columns_list[i])]]
        ELSE IF columns_list[first] \notin DOMAIN query
        THEN [raised |-> "KeyError"]
        ELSE [raised |-> "AttributeError"]

\* get_queries_info: the for loop over queries_res['_embedded']['query_runs']
Rows(query_runs) ==
    LET out == [i \in 1..Len(query_runs) |-> Row(query_runs[i])]
        failed == {i \in 1..Len(query_runs) : out[i].raised # "none"}
    IN  IF failed = {}
        THEN [raised |-> "none", data |-> [i \in 1..Len(query_runs) |-> out[i].row]]
        ELSE [raised |-> out[CHOOSE i \in failed : \A j \in failed : i <= j].raised]

\* raw_source: one line; two lines; a line break before three spaces
RawSources ==
    {<<"S">>, <<"S", "\n", "F">>, <<"S", "\n", " ", " ", " ", "F">>}

QueryRun(completed_at, raw_source) ==
    [query_token |-> Unicode(<<"q">>), state |-> Unicode(<<"o", "k">>),
     created_at |-> Unicode(<<"1">>), completed_at |-> completed_at,
     raw_source |-> raw_source, parameters |-> EmptyDict]

\* query runs as the Mode API lists them, one without 'parameters', one with a null source
QueryRuns ==
    {QueryRun(c, Unicode(r)) : c \in {Unicode(<<"2">>), PyNone}, r \in RawSources}
    \cup {[query_token |-> Unicode(<<"q">>), state |-> Unicode(<<"o", "k">>),
           created_at |-> Unicode(<<"1">>), completed_at |-> PyNone,
           raw_source |-> Unicode(<<"S">>)],
          QueryRun(PyNone, PyNone)}

\* open('file_name.csv', 'w')
OpenWrite(file) == <<>>

\* open('file_name.csv', 'a')
OpenAppend(file) == file

\* lambda_handler up to the if statement, and the return of its else path
LambdaHandler ==
    /\ pc = "lambda_handler"
    /\ LET text == IF "body" \in DOMAIN event THEN event["body"]
                   ELSE [type |-> "str",
                         doc |-> [valid |-> TRUE, kind |-> "object", members |-> NoEvent]]
       IN  IF text.type # "str" \/ ~text.doc.valid \/ text.doc.kind # "object"
           THEN /\ Raise(IF text.type # "str" THEN "TypeError"
                         ELSE IF ~text.doc.valid THEN "ValueError"
                         ELSE "AttributeError", "lambda_handler")
                /\ UNCHANGED <<body, event_name>>
           ELSE /\ body' = text.doc.members
                /\ event_name' = IF "event" \in DOMAIN body' THEN body'["event"] ELSE ""
                /\ IF event_name' = "report_run_completed"
                   THEN /\ pc' = "get_queries_info"
                        /\ UNCHANGED response
                   ELSE /\ pc' = "done"
                        /\ response' = [body |-> "success"]
                /\ UNCHANGED exc
    /\ UNCHANGED <<csv_vars, entry, event, fetches, payload, data, report_runs_data,
                   total_pages, runs_payload, args, slack_attachments, posts>>

\* get_queries_info(run_url): requests.get refuses a URL without a scheme
GetQueriesInfo ==
    /\ pc = "get_queries_info"
    /\ IF "report_run_url" \notin DOMAIN body
       THEN /\ Raise("MissingSchema", "get_queries_info")
            /\ UNCHANGED <<fetches, queries_res, queries_info>>
       ELSE /\ fetches' = Append(fetches, Fetch("query_runs", 0))
            /\ \E ok \in BOOLEAN :
                  IF ok
                  THEN \E query_runs \in SeqsUpTo(QueryRuns, MaxQueryRuns) :
                          /\ queries_res' = query_runs
                          /\ IF Rows(query_runs).raised = "none"
                             THEN /\ queries_info' = Rows(query_runs).data
                                  /\ pc' = "log_to_csv"
                                  /\ UNCHANGED <<exc, response>>
                             ELSE /\ Raise(Rows(query_runs).raised, "get_queries_info")
                                  /\ UNCHANGED queries_info
                  ELSE /\ Raise("RequestException", "get_queries_info")
                       /\ UNCHANGED <<queries_res, queries_info>>
    /\ UNCHANGED <<csv_file, csv_found, entry, event, event_name, body, payload, data,
                   report_runs_data, total_pages, runs_payload, args, slack_attachments,
                   posts>>

\* log_to_csv(queries_info), the file closed at the end of the with block,
\* and the return of lambda_handler
LogToCsv ==
    /\ pc = "log_to_csv"
    /\ csv_file' = OpenAppend(csv_file) \o queries_info
    /\ pc' = "done"
    /\ response' = [body |-> "success"]
    /\ UNCHANGED <<csv_found, queries_res, queries_info, entry, event, event_name, body,
                   fetches, payload, data, report_runs_data, total_pages, runs_payload,
                   args, slack_attachments, posts, exc>>

InitCsv ==
    /\ entry = "lambda_handler"
    /\ event \in Events
    /\ event_name = ""
    /\ pc = "lambda_handler"
    /\ args = <<>>
    /\ InitCommon

NextCsv ==
    \/ LambdaHandler
    \/ GetQueriesInfo
    \/ LogToCsv

SpecCsv == InitCsv /\ [][NextCsv]_vars

(***************************************************************************)
(* Properties of report_run_duration.                                      *)
(***************************************************************************)
\* seconds from 2020-01-01T00:00:00 to the whole second of a timestamp of 2020
SecondsInto2020(ts) ==
    LET before == <<0, 31, 60, 91, 121, 152, 182, 213, 244, 274, 305, 335>> IN
    (((before[ts[2]] + ts[3] - 1) * 24 + ts[4]) * 60 + ts[5]) * 60 + ts[6]

\* the whole seconds elapsed from one timestamp to a later one
ElapsedSeconds(from, to) ==
    SecondsInto2020(to) - SecondsInto2020(from) - (IF to[7] < from[7] THEN 1 ELSE 0)

NotBefore(from, to) ==
    \/ SecondsInto2020(from) < SecondsInto2020(to)
    \/ SecondsInto2020(from) = SecondsInto2020(to) /\ from[7] <= to[7]

\* C8: report_run_duration(created_at, completed_at) is the whole number of
\* seconds elapsed between the two timestamps whenever completed_at is not
\* before created_at, runs of a day or longer included.
C8_DurationIsElapsedSeconds ==
    (entry = "report_run_duration" /\ response.result = "returned" /\ NotBefore(args[1], args[2]))
        => response.value = ElapsedSeconds(args[1], args[2])

\* the same statement for runs shorter than a day: the case the code gets right
C8_ShortRunsOnly ==
    (entry = "report_run_duration" /\ response.result = "returned" /\ NotBefore(args[1], args[2])
       /\ ElapsedSeconds(args[1], args[2]) < 86400)
        => response.value = ElapsedSeconds(args[1], args[2])

(***************************************************************************)
(* Properties of the run history walk.                                     *)
(***************************************************************************)
RECURSIVE Flatten(_)
Flatten(pages) ==
    IF pages = <<>> THEN <<>> ELSE Head(pages).report_runs \o Flatten(Tail(pages))

\* the runs of a most-recent-first list that precede its first success
PrecedingFirstSuccess(runs) ==
    LET succ == {i \in 1..Len(runs) : runs[i].state = "succeeded"} IN
    IF succ = {} THEN Len(runs)
    ELSE (CHOOSE i \in succ : \A j \in succ : i <= j) - 1

RunsRequests == {i \in 1..Len(fetches) : fetches[i].endpoint = "runs"}

\* C1: consecutive_run_failures returns the number of runs that precede the
\* first succeeded run in the concatenation of the fetched pages (the runs
\* before the success on the page that holds it included).
C1_CountsRunsBeforeFirstSuccess ==
    (entry = "consecutive_run_failures" /\ response.result = "returned")
        => response.value = PrecedingFirstSuccess(Flatten(runs_payload))

\* C2: one call of get_report_runs issues at most 10 page requests whatever
\* total_pages the first page reports, and with total_pages = 3 it issues
\* exactly 3 requests and returns the 3 pages in the order fetched.
C2_AtMostTenPageRequests ==
    /\ Cardinality(RunsRequests) <= 10
    /\ (entry = "consecutive_run_failures" /\ response.result = "returned" /\ total_pages = 3)
          => /\ Len(fetches) = 3
             /\ Len(runs_payload) = 3
             /\ \A i \in 1..3 : runs_payload[i].pagination.page = fetches[i].page

\* a history of more than 10 pages was walked to the end of the loop
C2_Witness ==
    /\ entry = "consecutive_run_failures"
    /\ response.result = "returned"
    /\ total_pages > 10
    /\ Len(runs_payload) = 10

(***************************************************************************)
(* Properties of the enrichment and of the dispatchers.                    *)
(***************************************************************************)
\* the documented order of the resource fetches of each scope
DocumentedFetches ==
    [report_run |-> <<"report_run", "report", "space">>,
     report |-> <<"report", "space">>,
     connection |-> <<"connection">>,
     definition |-> <<"definition">>,
     membership |-> <<"membership", "user", "organization">>]

\* the documented top-level keys of each scope's payload
DocumentedKeys ==
    [report_run |-> {"report_run", "report", "space"},
     report |-> {"report", "space"},
     connection |-> {"connection"},
     definition |-> {"definition"},
     membership |-> {"membership", "user", "organization"}]

IsResourceFetch(f) == f.endpoint \notin {"results", "runs"}

\* the endpoints of the resource GETs issued, in order: the result rows of a
\* report run and the pages of the run history belong to their fetcher
ResourceFetches ==
    LET kept == SelectSeq(fetches, IsResourceFetch) IN
    [i \in 1..Len(kept) |-> kept[i].endpoint]

\* enrich_payload has returned its payload
EnrichmentReturned ==
    \/ pc \in {"enriched", "post"}
    \/ pc = "done" /\ (exc = NoExc \/ exc.at \in {"build_slack_message", "post"})

\* C3: for every event kind of WEBHOOK_EVENTS, enrich_payload issues the
\* resource fetches of the kind's scope in the documented order and returns
\* a payload with exactly the scope's namespaced keys; no Space fetch is
\* issued before the Report fetch has returned its space_token.
C3_FetchOrderAndKeys ==
    /\ (event_name \in DOMAIN WEBHOOK_EVENTS /\ EnrichmentReturned)
          => /\ ResourceFetches = DocumentedFetches[WEBHOOK_EVENTS[event_name].scope]
             /\ DOMAIN payload = DocumentedKeys[WEBHOOK_EVENTS[event_name].scope]
    /\ \A i \in 1..Len(fetches) :
          fetches[i].endpoint = "space"
             => /\ \E j \in 1..(i - 1) : fetches[j].endpoint = "report"
                /\ "report" \in DOMAIN payload
                /\ "space_token" \in DOMAIN payload["report"]

\* a report run event has been enriched by a direct call
C3_Witness ==
    /\ entry = "enrich_payload"
    /\ event_name = "report_run_started"
    /\ response.result = "returned"
    /\ DOMAIN response.value = {"report_run", "report", "space"}
    /\ Len(fetches) >= 5

\* the inbound body is absent, is not JSON, or parses to an object without 'event'
Malformed(ev) ==
    \/ "body" \notin DOMAIN ev
    \/ ev["body"].type = "NoneType"
    \/ ev["body"].type = "str" /\ ~ev["body"].doc.valid
    \/ ev["body"].type = "str" /\ ev["body"].doc.valid /\ ev["body"].doc.kind = "object"
         /\ "event" \notin DOMAIN ev["body"].doc.members

\* C4: on a malformed inbound body both dispatchers return result 'error'
\* with a message, and no GET and no POST is issued.
C4_MalformedBodyIsReported ==
    (entry \in Handlers /\ Malformed(event))
        => /\ fetches = <<>>
           /\ posts = <<>>
           /\ pc = "done" => (response.result = "error" /\ "message" \in DOMAIN response)

FetchSites ==
    {"get_report_run_info", "get_report_info", "get_report_runs", "get_space_info",
     "get_membership_info", "get_user_info", "get_org_info", "get_connection_info",
     "get_definition_info"}

\* C5: a dispatcher issues its POST only after every enrichment fetch and the
\* message build ended without error, and at most once; it returns 'success'
\* with 'response' only if the POST was issued; when a fetch or the message
\* build fails no POST is issued and it returns 'error' with 'message'.
C5_NoPartialSuccess ==
    entry \in Handlers =>
        /\ Len(posts) <= 1
        /\ posts # <<>> =>
              /\ exc = NoExc \/ exc.at = "post"
              /\ ResourceFetches = DocumentedFetches[WEBHOOK_EVENTS[event_name].scope]
              /\ DOMAIN payload = DocumentedKeys[WEBHOOK_EVENTS[event_name].scope]
              /\ entry = "post_to_slack" => slack_attachments.raised = "none"
        /\ response.result = "success" =>
              /\ Len(posts) = 1
              /\ "response" \in DOMAIN response
              /\ exc = NoExc
        /\ exc.at \in FetchSites \cup {"build_slack_message"} =>
              /\ posts = <<>>
              /\ response.result = "error"
              /\ "message" \in DOMAIN response

\* the chat dispatcher gave up on a failing build after a complete enrichment
C5_Witness ==
    /\ entry = "post_to_slack"
    /\ pc = "done"
    /\ exc.at = "build_slack_message"
    /\ Len(fetches) >= 5
    /\ posts = <<>>
    /\ response.result = "error"

\* a succeeded run of the watched report with no row above the threshold
QuietWatchedRun ==
    /\ entry = "post_to_slack"
    /\ event_name = "report_run_completed"
    /\ slack_attachments # NotBuilt
    /\ payload["report_run"].state = "succeeded"
    /\ payload["report"].id = 643059
    /\ \A i \in 1..Len(payload["report_run"].results) :
          payload["report_run"].results[i].total_amt_usd <= 1000

\* C6: for a succeeded run of the watched report with no row above the
\* threshold the chat message builder returns normally, with no alert.
C6_QuietRunReturnsNoAlert ==
    QuietWatchedRun =>
        /\ slack_attachments.raised = "none"
        /\ \A i \in 1..Len(slack_attachments.value) :
              slack_attachments.value[i].title # "Threshold Alert :heavy_exclamation_mark:"

\* the inbound body is a JSON object naming an event kind outside the table
UnknownKind(ev) ==
    /\ "body" \in DOMAIN ev
    /\ ev["body"].type = "str"
    /\ ev["body"].doc.valid
    /\ ev["body"].doc.kind = "object"
    /\ "event" \in DOMAIN ev["body"].doc.members
    /\ ev["body"].doc.members["event"] \notin DOMAIN WEBHOOK_EVENTS

\* C7: an event kind outside WEBHOOK_EVENTS fails fast: enrich_payload raises
\* before any GET and returns no payload, and each dispatcher returns 'error'
\* with the 'Unsupported event type' message without any GET or POST.
C7_UnknownKindFailsFast ==
    /\ (entry = "enrich_payload" /\ event_name \notin DOMAIN WEBHOOK_EVENTS)
          => /\ fetches = <<>>
             /\ response.result # "returned"
             /\ pc = "done" => response.result = "raised"
             /\ pc \in {"enrich_payload", "done"}
    /\ (entry \in Handlers /\ UnknownKind(event))
          => /\ fetches = <<>>
             /\ posts = <<>>
             /\ pc \in {"lambda_function_handler", "lookup", "done"}
             /\ pc = "done" => response = [result |-> "error", message |-> "Unsupported event type"]

\* a dispatcher has answered an event of an unknown kind that carries a URL
C7_Witness ==
    /\ entry \in Handlers
    /\ UnknownKind(event)
    /\ "report_url" \in DOMAIN event["body"].doc.members
    /\ pc = "done"
    /\ response.result = "error"

\* C9: the payload the generic dispatcher posts holds event_name, equal to
\* the 'event' value of the inbound body, and every namespaced key of the
\* scope with the value the enrichment gave it.
C9_PostedPayloadNamesEvent ==
    \A i \in 1..Len(posts) :
        posts[i].url = "destination_url" =>
            /\ "event_name" \in DOMAIN posts[i].data
            /\ posts[i].data["event_name"] = event["body"].doc.members["event"]
            /\ \A k \in DocumentedKeys[WEBHOOK_EVENTS[event["body"].doc.members["event"]].scope] :
                  /\ k \in DOMAIN posts[i].data
                  /\ posts[i].data[k] = payload[k]
            /\ DOMAIN posts[i].data = DOMAIN payload \cup {"event_name"}

\* the generic dispatcher has posted the payload of a membership event
C9_Witness ==
    /\ entry = "post_to_destination"
    /\ Len(posts) = 1
    /\ event["body"].doc.members["event"] = "member_joined_organization"
    /\ response.result = "success"

\* the first row of a result whose watched field is above the threshold, 0 if none
FirstRowAbove(rows) ==
    IF \E i \in 1..Len(rows) : rows[i].total_amt_usd > 1000
    THEN CHOOSE i \in 1..Len(rows) :
            /\ rows[i].total_amt_usd > 1000
            /\ \A j \in 1..(i - 1) : rows[j].total_amt_usd <= 1000
    ELSE 0

\* C10: for report_run_completed the chat message builder yields, for a
\* failed run, the failure message with the report's consecutive_run_failures;
\* for a succeeded run of a report that is not watched, the success message
\* with execution_duration; for a succeeded run of the watched report with a
\* row above the threshold, one alert whose Observed Value is the watched
\* field of the first such row and whose Threshold Value is the threshold.
C10_MessageByStateAndWatchRule ==
    (entry = "post_to_slack" /\ event_name = "report_run_completed" /\ slack_attachments # NotBuilt)
        => LET run == payload["report_run"]
               report == payload["report"]
               built == slack_attachments
               first == FirstRowAbove(run.results)
           IN
           /\ run.state = "failed" =>
                 /\ built.raised = "none"
                 /\ Len(built.value) = 1
                 /\ built.value[1].title = "Failed Report Run :sad-error:"
                 /\ built.value[1].text.args = <<ToString(report.consecutive_run_failures)>>
           /\ (run.state = "succeeded" /\ report.id # 643059) =>
                 /\ built.raised = "none"
                 /\ Len(built.value) = 1
                 /\ built.value[1].title = "Successful Report Run :success:"
                 /\ built.value[1].text.args = <<ToString(run.execution_duration)>>
           /\ (run.state = "succeeded" /\ report.id = 643059 /\ first # 0) =>
                 /\ built.raised = "none"
                 /\ Len(built.value) = 1
                 /\ built.value[1].title = "Threshold Alert :heavy_exclamation_mark:"
                 /\ built.value[1].fields =
                       <<[title |-> "Observed Value", value |-> run.results[first].total_amt_usd],
                         [title |-> "Threshold Value", value |-> 1000]>>

\* the failure message of a report that failed its last 4 runs was posted
C10_Witness ==
    /\ entry = "post_to_slack"
    /\ event_name = "report_run_completed"
    /\ Len(posts) = 1
    /\ payload["report_run"].state = "failed"
    /\ payload["report"].consecutive_run_failures = 4
    /\ posts[1].json.attachments[1].text.args = <<"4">>

\* the event kinds build_slack_message has a branch for
SlackSupported ==
    {"report_run_completed", "report_created", "member_joined_organization",
     "definition_created", "definition_updated", "new_database_connection"}

\* C13: an event kind the chat message builder does not support never
\* produces a POST: build_slack_message raises 'Unsupported event type' and
\* the handler returns 'error'.  For report_run_started, a kind of
\* WEBHOOK_EVENTS, the whole report_run enrichment is fetched first and only
\* then the build fails, with no POST.
C13_UnsupportedByBuilderNeverPosts ==
    (entry = "post_to_slack" /\ event_name # "" /\ event_name \notin SlackSupported)
        => /\ posts = <<>>
           /\ pc # "post"
           /\ response.result # "success"
           /\ pc = "done" => response.result = "error"
           /\ event_name \notin DOMAIN WEBHOOK_EVENTS =>
                 build_slack_message(event_name, payload) = Raised("Unsupported event type")
           /\ slack_attachments # NotBuilt =>
                 /\ slack_attachments.raised = "Unsupported event type"
                 /\ event_name = "report_run_started"
                 /\ ResourceFetches = <<"report_run", "report", "space">>
                 /\ DOMAIN payload = {"report_run", "report", "space"}
                 /\ pc = "done"
                 /\ response = [result |-> "error", message |-> "Unsupported event type"]
           /\ (event_name = "report_run_started" /\ pc = "done" /\ exc.at = "build_slack_message")
                 => exc.type = "Unsupported event type"

\* the chat dispatcher enriched a report_run_started event and gave up on the build
C13_Witness ==
    /\ entry = "post_to_slack"
    /\ event_name = "report_run_started"
    /\ pc = "done"
    /\ exc = [type |-> "Unsupported event type", at |-> "build_slack_message"]
    /\ Len(fetches) >= 5
    /\ posts = <<>>

\* C14: every chat payload post_to_slack posts carries exactly one attachment
\* and the username 'Mode': build_slack_message returns a one-element list
\* or raises, also for a report_run_completed whose run state is neither
\* 'succeeded' nor 'failed'; no empty list is ever posted.
C14_PostedChatPayloadHasOneAttachment ==
    /\ \A i \in 1..Len(posts) :
          posts[i].url = "slack_webhook_url" =>
              /\ Len(posts[i].json.attachments) = 1
              /\ posts[i].json.username = "Mode"
              /\ DOMAIN posts[i].json = {"attachments", "username"}
    /\ slack_attachments # NotBuilt =>
          \/ slack_attachments.raised # "none" /\ posts = <<>>
          \/ slack_attachments.raised = "none" /\ Len(slack_attachments.value) = 1
    /\ (entry = "post_to_slack" /\ event_name = "report_run_completed"
          /\ slack_attachments # NotBuilt
          /\ payload["report_run"].state \notin {"succeeded", "failed"})
          => slack_attachments.raised # "none" /\ posts = <<>>

\* the chat dispatcher posted a payload, built for a kind other than a run's
C14_Witness ==
    /\ entry = "post_to_slack"
    /\ event_name \in SlackSupported \ {"report_run_completed"}
    /\ slack_attachments # NotBuilt
    /\ slack_attachments.raised = "none"
    /\ Len(posts) = 1
    /\ posts[1].url = "slack_webhook_url"
    /\ posts[1].json = [attachments |-> slack_attachments.value, username |-> "Mode"]

\* the inbound event of the CSV dispatcher has no body, or a JSON object for body
CsvBodyIsObject ==
    /\ entry = "lambda_handler"
    /\ "body" \in DOMAIN event =>
          /\ event["body"].type = "str"
          /\ event["body"].doc.valid
          /\ event["body"].doc.kind = "object"

\* the GET of the query runs was answered, with query runs of the six columns
QueryRunsFetched ==
    /\ fetches = <<Fetch("query_runs", 0)>>
    /\ exc.type # "RequestException"
    /\ Rows(queries_res).raised = "none"

\* C11: lambda_handler of the CSV dispatcher, for a report_run_completed
\* event, appends one row per fetched query run, in upstream order, after
\* the rows file_name.csv already holds, which stay as they were; for any
\* other kind, or a body without 'event', it fetches nothing, leaves the
\* file as it was and returns the success body.
C11_AppendsOneRowPerQueryRun ==
    entry = "lambda_handler" =>
        /\ Len(csv_file) >= Len(csv_found)
        /\ SubSeq(csv_file, 1, Len(csv_found)) = csv_found
        /\ (pc = "done" /\ CsvBodyIsObject /\ event_name = "report_run_completed") =>
              /\ Len(fetches) <= 1
              /\ IF QueryRunsFetched
                 THEN /\ exc = NoExc
                      /\ Len(csv_file) = Len(csv_found) + Len(queries_res)
                      /\ \A i \in 1..Len(queries_res) :
                            LET row == csv_file[Len(csv_found) + i] IN
                            /\ Len(row) = Len(columns_list)
                            /\ row[1] = queries_res[i].query_token.text
                            /\ row[4] = Str(queries_res[i].completed_at)
                            /\ row[5] = Cell(queries_res[i], "raw_source")
                            /\ \A k \in 1..Len(row[5]) : row[5][k] # "\n"
                      /\ response = [body |-> "success"]
                 ELSE /\ exc # NoExc
                      /\ csv_file = csv_found
        /\ (pc = "done" /\ CsvBodyIsObject /\ event_name # "report_run_completed") =>
              /\ exc = NoExc
              /\ fetches = <<>>
              /\ csv_file = csv_found
              /\ response = [body |-> "success"]
        /\ pc # "done" => csv_file = csv_found

\* the invocation of the CSV dispatcher returned
CsvReturned == entry = "lambda_handler" /\ pc = "done" /\ exc = NoExc

\* two different query runs were appended to a file that held rows, for a
\* source text whose line break was replaced
C11_Witness ==
    /\ CsvReturned
    /\ event_name = "report_run_completed"
    /\ Len(csv_found) = 2
    /\ Len(queries_res) = 2
    /\ queries_res[1] # queries_res[2]
    /\ queries_res[1].raw_source.text = <<"S", "\n", " ", " ", " ", "F">>
    /\ csv_file[3][5] = <<"S", "F">>
    /\ Len(csv_file) = 4

====
